---- MODULE Spec2Model ----
(***************************************************************************)
(* gdaldem_web: block-wise elevation -> RGB conversion with a fixed pool   *)
(* of worker threads (src/gdaldem_web.c).                                  *)
(*                                                                         *)
(* Three specifications share the variables below:                         *)
(*   Spec     main() and thread_run(): option checks, dataset set-up,      *)
(*            block loop, dispatch/barrier protocol, shutdown, clean-up.   *)
(*   SpecEnc  z2rgb() applied to one sample under a drawn configuration.   *)
(*   SpecBuf  calculate_buf_size() applied to drawn geometry and budget.   *)
(***************************************************************************)
EXTENDS Integers, Naturals, Sequences, FiniteSets, TLC

(***************************************************************************)
(* Bounds of the model.                                                    *)
(***************************************************************************)
\* largest worker count drawn for n_threads (sysconf / -P)
MaxThreads == 2
\* largest dataset width and height drawn in Spec
MaxDsX == 3
MaxDsY == 3
\* stands for the sample budget 8 << 20 that main passes to
\* calculate_buf_size (line 236), scaled to the datasets of Spec
BufBudget == 3
\* SpecEnc: small scale ranges are drawn exhaustively up to this scale_max
MaxSmallScale == 6
\* SpecEnc: one large scale_max (scale_min = 0), so that scaleRange > 512
BigScale == 512
\* SpecBuf: dataset sizes up to this many native tiles, budgets up to this
\* many tile areas
MaxDsTiles == 3
MaxBudgetTiles == 4

(***************************************************************************)
(* Program constants.                                                      *)
(***************************************************************************)
\* native tile edge of the buffer sizing bound (spec.md section 8)
TileEdge == 256
\* significand width of IEEE-754 single precision (float)
FltMantDig == 24
\* exponent of the least subnormal single precision value, 2^-149
FltMinExp == 149

Min(a, b) == IF a < b THEN a ELSE b
Abs(a) == IF a < 0 THEN -a ELSE a

(***************************************************************************)
(* IEEE-754 single precision values.  A finite float is [m, x], standing   *)
(* for m * 2^x, kept reduced (m odd, or m = 0 and x = 0), so that equal    *)
(* values are equal records.  Every operation rounds its exact result to   *)
(* the nearest value with a 24 bit significand, ties to even, as the       *)
(* float arithmetic of the build does.  Infinities and NaN are not         *)
(* represented.                                                            *)
(***************************************************************************)
RECURSIVE Reduce(_, _)
Reduce(m, x) ==
    IF m = 0 THEN [m |-> 0, x |-> 0]
    ELSE IF m % 2 = 0 THEN Reduce(m \div 2, x + 1)
    ELSE [m |-> m, x |-> x]

\* the quotient is (m + r/q) * 2^x with 0 <= r < q: shift in quotient bits
\* until the significand is full, then round to nearest, ties to even
RECURSIVE GrowMant(_, _, _, _)
GrowMant(m, r, q, x) ==
    IF r = 0 \/ m >= 2^(FltMantDig - 1) \/ x = -FltMinExp
    THEN [m |-> IF 2 * r > q \/ (2 * r = q /\ m % 2 = 1) THEN m + 1 ELSE m,
          x |-> x]
    ELSE GrowMant(2 * m + (IF 2 * r >= q THEN 1 ELSE 0),
                  IF 2 * r >= q THEN 2 * r - q ELSE 2 * r, q, x - 1)

\* the integer part has more than 24 bits: shift out low bits, keeping the
\* last bit shifted out (half) and whether anything below it was non-zero
RECURSIVE ShrinkMant(_, _, _, _)
ShrinkMant(m, half, sticky, x) ==
    IF m < 2^FltMantDig
    THEN [m |-> IF half = 1 /\ (sticky \/ m % 2 = 1) THEN m + 1 ELSE m,
          x |-> x]
    ELSE ShrinkMant(m \div 2, m % 2, sticky \/ half = 1, x + 1)

\* the float nearest to p / q, q > 0
RoundRat(p, q) ==
    LET a == Abs(p)
        ip == a \div q
        r == a % q
        res == IF ip >= 2^FltMantDig THEN ShrinkMant(ip, 0, r > 0, 0)
               ELSE GrowMant(ip, r, q, 0)
    IN Reduce(IF p < 0 THEN -res.m ELSE res.m, res.x)

\* conversion int -> float
IntToFloat(n) == RoundRat(n, 1)

FMul(a, b) ==
    LET r == RoundRat(a.m * b.m, 1)
    IN Reduce(r.m, r.x + a.x + b.x)

FSub(a, b) ==
    LET lo == Min(a.x, b.x)
        r == RoundRat(a.m * 2^(a.x - lo) - b.m * 2^(b.x - lo), 1)
    IN Reduce(r.m, r.x + lo)

\* b is not zero
FDiv(a, b) ==
    LET r == RoundRat(IF b.m < 0 THEN -a.m ELSE a.m, Abs(b.m))
    IN Reduce(r.m, r.x + a.x - b.x)

\* floor() of math.h: the largest integer not above the value
Floor(a) ==
    IF a.x >= 0 THEN a.m * 2^(a.x)
    ELSE IF -a.x > 30 THEN (IF a.m < 0 THEN -1 ELSE 0)
    ELSE a.m \div 2^(-a.x)

FLeqZero(a) == a.m <= 0

\* whether the integral part of the value is representable as a 32 bit int
FitsInt(a) ==
    \/ a.m = 0
    \/ a.x <= 0
    \/ a.x < 31 /\ Abs(a.m) < 2^(31 - a.x)
    \/ a.m = -1 /\ a.x = 31

\* the float literal 256.0f
F256 == [m |-> 1, x |-> 8]
\* -FLT_MAX, the initial src_nodata
NegFltMax == [m |-> -(2^FltMantDig - 1), x |-> 104]

(***************************************************************************)
(* C integer conversions used by z2rgb.                                    *)
(***************************************************************************)
\* a % b of C99 for b > 0: the remainder has the sign of a
CRem(a, b) == IF a >= 0 THEN a % b ELSE -((-a) % b)
\* conversion int -> unsigned char: reduction modulo 256
IntToUChar(n) == n % 256
\* conversion double -> unsigned char of an integral value: defined only
\* when the value is representable, any byte otherwise (C99 6.3.1.4)
DoubleToUCharOutcomes(n) == IF n \in 0..255 THEN {n} ELSE 0..255


(***************************************************************************)
(* State.  Globals and locals of main() keep their names.                  *)
(***************************************************************************)
VARIABLES
    \* options (file scope, lines 39-44) and scale_range (line 47)
    resolution, src_nodata, dst_nodata, has_nodata, scale_min, scale_max,
    scale_range,
    \* pool globals (lines 59-63): the counter, each mutex's owner, each
    \* condition variable's set of blocked waiters
    wait_sem, go_mutex, wait_mutex, go_cond, wait_cond,
    \* contexts[i] = [off, area, go] (CTX, lines 51-57; src and dst[] are
    \* src_buf + off and dst_buf[] + off), and each worker's position in
    \* thread_run
    contexts, tpc,
    \* whether the build defines WITH_PTHREADS (Makefile line 5)
    with_pthreads,
    \* the kind of command line given to main, and whether dst_path names
    \* an existing file when the run starts
    argv, dst_path_exists,
    \* locals of main
    pc, ret, n_threads, user_nodata, src, dst, src_buf, dst_buf,
    ds_x_size, ds_y_size, blk_x_size, blk_y_size, n_blks, n, x, y, i, err,
    \* inputs of calculate_buf_size: native tile size and sample budget
    tile_x, tile_y, max_area,
    \* the Sink dataset: the origins <<x, y>> of the blocks persisted so far,
    \* and whether GDALCreate has been called
    written, create_called

encVars == <<resolution, src_nodata, dst_nodata, has_nodata, scale_min,
             scale_max, scale_range>>
syncVars == <<wait_sem, go_mutex, wait_mutex, go_cond, wait_cond>>
thrVars == <<contexts, tpc>>
bufVars == <<src_buf, dst_buf>>
geoVars == <<ds_x_size, ds_y_size, blk_x_size, blk_y_size, n_blks,
             tile_x, tile_y, max_area>>
loopVars == <<n, x, y, i, err>>
sinkVars == <<written, create_called>>
vars == <<encVars, syncVars, thrVars, bufVars, geoVars, loopVars, sinkVars,
          with_pthreads, argv, dst_path_exists, pc, ret, n_threads,
          user_nodata, src, dst>>

\* a byte of a buffer that malloc returned and nothing has written yet:
\* its value is indeterminate
Uninit == -1
\* a sample of a buffer that malloc returned and nothing has written yet
\* (no float is represented with m = 0 and x # 0)
UninitSample == [m |-> 0, x |-> 1]
\* a null pointer, and a pointer whose storage has been freed
NULL == <<>>
FREED == <<"freed">>
\* a dataset handle that is open, and one that GDALClose has closed
OPEN == <<"open">>
CLOSED == <<"closed">>
\* a mutex is owned by nobody, by the Orchestrator or by a worker, or has
\* been destroyed
FREE == <<"free">>
MAIN == <<"main">>
WORKER(t) == <<"worker", t>>
DESTROYED == <<"destroyed">>

(***************************************************************************)
(* z2rgb (lines 401-418).                                                  *)
(***************************************************************************)
\* line 170: scale_range = scale_max - scale_min + 1 (int, then float)
ScaleRangeOfMissingOne(smin, smax) == IntToFloat(smax - smin)
ScaleRangeOf(smin, smax) == IntToFloat(smax - smin + 1)

\* lines 409-412: the nodata branch assigns dst_nodata, the other branch
\* multiplies by resolution
EffectiveScalesNodata(e) ==
    IF has_nodata # 0 /\ e = src_nodata
    THEN FMul(IntToFloat(dst_nodata), resolution)
    ELSE FMul(e, resolution)
Effective(e) ==
    IF has_nodata # 0 /\ e = src_nodata THEN IntToFloat(dst_nodata)
    ELSE FMul(e, resolution)

\* line 413: v = 256.0f * (e - scale_min) / scale_range
Normalized(e) == FDiv(FMul(F256, FSub(e, IntToFloat(scale_min))), scale_range)

\* line 414: dst[0][i] = floor(v)
Chan0Outcomes(v) ==
    IF FitsInt(v) THEN DoubleToUCharOutcomes(Floor(v)) ELSE 0..255
\* line 415: dst[1][i] = ((int) floor(v * 256.0f)) % 256; the conversion
\* to int is defined only for a value that int can hold
Chan1Outcomes(v) ==
    LET w == FMul(v, F256)
    IN IF FitsInt(w) THEN {IntToUChar(CRem(Floor(w), 256))} ELSE 0..255

\* lines 408-416 for one sample: the byte triples the build can store
Z2rgbPixel(sample) ==
    LET v == Normalized(Effective(sample))
    IN {<<c0, c1, 0>> : c0 \in Chan0Outcomes(v), c1 \in Chan1Outcomes(v)}

\* the loop of lines 407-417 over src[0 .. area-1]: the possible sequences
\* of byte triples, one triple per sample
RECURSIVE Z2rgbRuns(_, _, _)
Z2rgbRuns(sbuf, soff, area) ==
    IF area <= 0 THEN {<<>>}
    ELSE {Append(p, t) : p \in Z2rgbRuns(sbuf, soff, area - 1),
                         t \in Z2rgbPixel(sbuf[soff + area - 1])}

\* the stores of lines 414-416 into the three planes dst[0], dst[1], dst[2]
\* (d0, d1, d2 are their offsets in the destination allocation)
Z2rgbStore(dbuf, run, d0, d1, d2) ==
    LET cnt == Len(run)
    IN [j \in DOMAIN dbuf |->
          IF j >= d2 /\ j < d2 + cnt THEN run[j - d2 + 1][3]
          ELSE IF j >= d1 /\ j < d1 + cnt THEN run[j - d1 + 1][2]
          ELSE IF j >= d0 /\ j < d0 + cnt THEN run[j - d0 + 1][1]
          ELSE dbuf[j]]

(***************************************************************************)
(* calculate_buf_size (lines 366-399).                                     *)
(***************************************************************************)
\* the loops of lines 381-384 and 390-393
RECURSIVE GrowBuf(_, _, _, _, _, _)
GrowBuf(buf_size, buf_area, blk_size, blk_area, ds_size, budget) ==
    IF buf_size < ds_size /\ buf_area + blk_area < budget
    THEN GrowBuf(buf_size + blk_size, buf_area + blk_area, blk_size,
                 blk_area, ds_size, budget)
    ELSE buf_size

\* lines 385-386 and 394-395
ClampToDatasetNever(buf_size, ds_size) == buf_size
ClampToDataset(buf_size, ds_size) ==
    IF ds_size < buf_size THEN ds_size ELSE buf_size

\* <<*x_size, *y_size>>
CalculateBufSize(dsx, dsy, tx, ty, budget) ==
    LET bx == ClampToDataset(GrowBuf(tx, tx * ty, tx, tx * ty, dsx, budget),
                             dsx)
        by == ClampToDataset(GrowBuf(ty, bx * ty, ty, bx * ty, dsy, budget),
                             dsy)
    IN <<bx, by>>


(***************************************************************************)
(* SpecEnc: z2rgb on one sample.  The configuration is one that passed     *)
(* the checks of lines 172-183; the nodata pair is an explicit one         *)
(* (-nodata, checked at line 176) or the band's own with the default       *)
(* dst_nodata = 0 (lines 41 and 216).                                      *)
(***************************************************************************)
FOne == IntToFloat(1)
FHalf == [m |-> 1, x |-> -1]
EncResolutions == {FHalf, FOne, IntToFloat(2), IntToFloat(3)}
EncScaleMins == {-1, 0, 2}
EncNodataSrc == {IntToFloat(-32768), IntToFloat(2)}

\* the variables the pure-function specifications leave alone
PoolIdle ==
    /\ wait_sem = 0 /\ go_mutex = FREE /\ wait_mutex = FREE
    /\ go_cond = {} /\ wait_cond = {}
    /\ contexts = NULL /\ tpc = <<>>
    /\ with_pthreads = TRUE /\ argv = "options" /\ dst_path_exists = FALSE
    /\ ret = 1 /\ n_threads = 1 /\ user_nodata = 0
    /\ src = NULL /\ dst = NULL
    /\ n_blks = 0 /\ n = 0 /\ x = 0 /\ y = 0 /\ i = 0 /\ err = "CE_None"
    /\ written = {} /\ create_called = FALSE

GeoIdle ==
    /\ ds_x_size = 1 /\ ds_y_size = 1 /\ blk_x_size = 1 /\ blk_y_size = 1
    /\ tile_x = 1 /\ tile_y = 1 /\ max_area = 1

InitEnc ==
    /\ PoolIdle /\ GeoIdle
    /\ pc = "z2rgb"
    /\ \/ \* in-range and just out-of-range integers, resolution 1, no nodata
          /\ \/ scale_min \in EncScaleMins /\ scale_max \in scale_min..MaxSmallScale
             \/ scale_min = 0 /\ scale_max = BigScale
          /\ resolution = FOne
          /\ has_nodata = 0 /\ src_nodata = NegFltMax /\ dst_nodata = 0
          /\ \E e \in (scale_min - 1)..(scale_max + 1) :
                src_buf = [j \in {0} |-> IntToFloat(e)]
       \/ \* nodata configured
          /\ scale_min \in EncScaleMins /\ scale_max \in scale_min..MaxSmallScale
          /\ resolution \in EncResolutions
          /\ has_nodata = 1 /\ src_nodata \in EncNodataSrc
          /\ dst_nodata \in {scale_min, scale_max, 0}
          /\ \E e \in {src_nodata} \cup {IntToFloat(k) : k \in 0..3} :
                src_buf = [j \in {0} |-> e]
    /\ scale_range = ScaleRangeOf(scale_min, scale_max)
    /\ ~FLeqZero(scale_range)
    /\ dst_buf = [j \in 0..2 |-> Uninit]

\* z2rgb(src_buf, dst_buf, 1) with the planes at offsets 0, 1, 2
EncRun ==
    /\ pc = "z2rgb"
    /\ \E run \in Z2rgbRuns(src_buf, 0, 1) :
          dst_buf' = Z2rgbStore(dst_buf, run, 0, 1, 2)
    /\ pc' = "encoded"
    /\ UNCHANGED <<encVars, syncVars, thrVars, geoVars, loopVars, sinkVars,
                   with_pthreads, argv, dst_path_exists, ret, n_threads,
                   user_nodata, src, dst, src_buf>>

NextEnc == EncRun
SpecEnc == InitEnc /\ [][NextEnc]_vars

(***************************************************************************)
(* SpecBuf: calculate_buf_size for the native tile of TileEdge squared.    *)
(***************************************************************************)
BufDsSizes ==
    {s \in {t * TileEdge + o : t \in 0..MaxDsTiles, o \in {-1, 0, 1}} : s >= 1}
BufBudgets ==
    {b \in {t * TileEdge * TileEdge + o :
                t \in 0..MaxBudgetTiles, o \in {-1, 0, 1}} : b >= 1}

EncIdle ==
    /\ resolution = FOne /\ src_nodata = NegFltMax /\ dst_nodata = 0
    /\ has_nodata = 0 /\ scale_min = -12000 /\ scale_max = 10000
    /\ scale_range = ScaleRangeOf(-12000, 10000)
    /\ src_buf = NULL /\ dst_buf = NULL

InitBuf ==
    /\ PoolIdle /\ EncIdle
    /\ pc = "calculate_buf_size"
    /\ ds_x_size \in BufDsSizes /\ ds_y_size \in BufDsSizes
    /\ tile_x = TileEdge /\ tile_y = TileEdge
    /\ max_area \in BufBudgets
    /\ blk_x_size = 0 /\ blk_y_size = 0

BufRun ==
    /\ pc = "calculate_buf_size"
    /\ LET size == CalculateBufSize(ds_x_size, ds_y_size, tile_x, tile_y,
                                    max_area)
       IN blk_x_size' = size[1] /\ blk_y_size' = size[2]
    /\ pc' = "sized"
    /\ UNCHANGED <<encVars, syncVars, thrVars, bufVars, loopVars, sinkVars,
                   with_pthreads, argv, dst_path_exists, ret, n_threads,
                   user_nodata, src, dst, ds_x_size, ds_y_size, n_blks,
                   tile_x, tile_y, max_area>>

NextBuf == BufRun
SpecBuf == InitBuf /\ [][NextBuf]_vars


(***************************************************************************)
(* Spec: main() (lines 72-364) and thread_run() (lines 421-446).           *)
(*                                                                         *)
(* Inputs drawn: the command line (scale, nodata, resolution, -P), what    *)
(* the raster library answers (driver, datasets, band nodata, sizes,       *)
(* native tile, block reads and writes), allocation results and the        *)
(* samples of each block.                                                  *)
(***************************************************************************)
\* -scale min max
ArgScales == {<<1, 2>>, <<2, 1>>}
\* -nodata: absent, "own" num, or num num
ArgNodata ==
    {[kind |-> "none", s |-> NegFltMax, d |-> 0]}
    \cup {[kind |-> "own", s |-> NegFltMax, d |-> d] : d \in {0, 2}}
    \cup {[kind |-> "user", s |-> FOne, d |-> d] : d \in {0, 2}}
\* -r resolution
ArgResolutions == {IntToFloat(0), FOne}
\* -P num, or absent (n_threads keeps sysconf's answer)
ArgThreads ==
    {[given |-> FALSE, num |-> 0]}
    \cup {[given |-> TRUE, num |-> k] : k \in {0, 1}}
\* the band's own nodata value, when it has one, and the value
\* GDALGetRasterNoDataValue returns when it has none (-1e10)
BandNodata == IntToFloat(-9999)
BandNoNodata == [m |-> -9765625, x |-> 10]
\* the elevation samples a block read delivers
Samples == <<FOne, IntToFloat(2)>>
\* native tile sizes GDALGetBlockSize reports in Spec
TileSizes == {<<1, 1>>}

\* the block of the current iteration (lines 280-282)
XSize == Min(ds_x_size, x + blk_x_size) - x
YSize == Min(ds_y_size, y + blk_y_size) - y
Area == XSize * YSize
\* blk_area of line 237
BlkArea == blk_x_size * blk_y_size

\* the workers that exist
Threads == {t \in DOMAIN tpc : tpc[t] # "none"}

Init ==
    /\ resolution = FOne /\ src_nodata = NegFltMax /\ dst_nodata = 0
    /\ has_nodata = 0 /\ scale_min = -12000 /\ scale_max = 10000
    /\ scale_range = IntToFloat(0)
    /\ wait_sem = 0 /\ go_mutex = FREE /\ wait_mutex = FREE
    /\ go_cond = {} /\ wait_cond = {}
    /\ contexts = NULL /\ tpc = <<>>
    /\ with_pthreads \in BOOLEAN
    /\ argv \in {"-help", "usage", "options"}
    /\ dst_path_exists \in BOOLEAN
    /\ pc = "args" /\ ret = 1
    \* line 120: sysconf(_SC_NPROCESSORS_ONLN)
    /\ n_threads \in (IF with_pthreads THEN 1..MaxThreads ELSE {0})
    /\ user_nodata = 0
    /\ src = NULL /\ dst = NULL /\ src_buf = NULL /\ dst_buf = NULL
    /\ ds_x_size = 0 /\ ds_y_size = 0 /\ blk_x_size = 0 /\ blk_y_size = 0
    /\ n_blks = IntToFloat(0) /\ tile_x = 0 /\ tile_y = 0
    /\ max_area = BufBudget
    /\ n = 0 /\ x = 0 /\ y = 0 /\ i = 0 /\ err = "CE_None"
    /\ written = {} /\ create_called = FALSE

\* lines 123-169: the option loop and the argument count
ParseArgs ==
    /\ pc = "args"
    /\ \/ /\ argv = "-help"
          /\ ret' = 0 /\ pc' = "end"
          /\ UNCHANGED <<encVars, n_threads, user_nodata>>
       \/ /\ argv = "usage"
          /\ pc' = "end"
          /\ UNCHANGED <<encVars, ret, n_threads, user_nodata>>
       \/ /\ argv = "options"
          /\ \E sc \in ArgScales, nd \in ArgNodata, r \in ArgResolutions,
                p \in ArgThreads :
                /\ scale_min' = sc[1] /\ scale_max' = sc[2]
                /\ resolution' = r
                /\ IF nd.kind = "none"
                   THEN UNCHANGED <<has_nodata, dst_nodata, src_nodata,
                                    user_nodata>>
                   ELSE /\ has_nodata' = 1 /\ dst_nodata' = nd.d
                        /\ user_nodata' = (IF nd.kind = "user" THEN 1 ELSE 0)
                        /\ src_nodata' = (IF nd.kind = "user" THEN nd.s
                                          ELSE src_nodata)
                /\ n_threads' = (IF with_pthreads /\ p.given THEN p.num
                                 ELSE n_threads)
          /\ pc' = "check"
          /\ UNCHANGED <<scale_range, ret>>
    /\ UNCHANGED <<syncVars, thrVars, bufVars, geoVars, loopVars, sinkVars,
                   with_pthreads, argv, dst_path_exists, src, dst>>

\* the checks of lines 172-193, in order; exists is CPLCheckForFile's answer
OptionsRejected(range, exists) ==
    \/ FLeqZero(range)
    \/ has_nodata # 0 /\ (dst_nodata < scale_min \/ scale_max < dst_nodata)
    \/ FLeqZero(resolution)
    \/ exists
    \/ with_pthreads /\ n_threads < 1

\* lines 170-193
CheckOptions ==
    /\ pc = "check"
    /\ scale_range' = ScaleRangeOf(scale_min, scale_max)
    /\ pc' = IF OptionsRejected(scale_range', dst_path_exists) THEN "end"
             ELSE "open"
    /\ UNCHANGED <<resolution, src_nodata, dst_nodata, has_nodata, scale_min,
                   scale_max, syncVars, thrVars, bufVars, geoVars, loopVars,
                   sinkVars, with_pthreads, argv, dst_path_exists, ret,
                   n_threads, user_nodata, src, dst>>

\* lines 195-210: driver lookup, GDALOpen, band number
OpenSource ==
    /\ pc = "open"
    /\ \E outcome \in {"no driver", "no source", "bad band", "ok"} :
          /\ src' = IF outcome \in {"bad band", "ok"} THEN OPEN ELSE NULL
          /\ pc' = IF outcome = "ok" THEN "band" ELSE "end"
    /\ UNCHANGED <<encVars, syncVars, thrVars, bufVars, geoVars, loopVars,
                   sinkVars, with_pthreads, argv, dst_path_exists, ret,
                   n_threads, user_nodata, dst>>

\* lines 212-216: the raster size, and the band's own nodata unless the
\* user gave the source value
ReadBand ==
    /\ pc = "band"
    /\ ds_x_size' \in 1..MaxDsX
    /\ ds_y_size' \in 1..MaxDsY
    /\ IF user_nodata = 0
       THEN \E has \in {0, 1} :
               /\ has_nodata' = has
               /\ src_nodata' = IF has = 1 THEN BandNodata ELSE BandNoNodata
       ELSE UNCHANGED <<has_nodata, src_nodata>>
    /\ pc' = "create"
    /\ UNCHANGED <<resolution, dst_nodata, scale_min, scale_max, scale_range,
                   syncVars, thrVars, bufVars, blk_x_size, blk_y_size, n_blks,
                   tile_x, tile_y, max_area, loopVars, sinkVars,
                   with_pthreads, argv, dst_path_exists, ret, n_threads,
                   user_nodata, src, dst>>

\* lines 218-234: GDALCreate, projection and geotransform
CreateDest ==
    /\ pc = "create"
    /\ create_called' = TRUE
    /\ \E outcome \in {"no create", "no projection", "no geotransform",
                       "ok"} :
          /\ dst' = IF outcome = "no create" THEN NULL ELSE OPEN
          /\ pc' = IF outcome = "ok" THEN "plan" ELSE "end"
    /\ UNCHANGED <<encVars, syncVars, thrVars, bufVars, geoVars, loopVars,
                   written, with_pthreads, argv, dst_path_exists, ret,
                   n_threads, user_nodata, src>>

\* lines 238-239: the total number of blocks, as the float n_blks
TotalBlocksRoundedDown(dsx, dsy, bx, by) == (dsx \div bx) * (dsy \div by)
TotalBlocks(dsx, dsy, bx, by) ==
    ((dsx + bx - 1) \div bx) * ((dsy + by - 1) \div by)

\* lines 236-251: block geometry and the two buffers
PlanBuffers ==
    /\ pc = "plan"
    /\ \E tile \in TileSizes :
          /\ tile_x' = tile[1] /\ tile_y' = tile[2]
          /\ LET size == CalculateBufSize(ds_x_size, ds_y_size, tile[1],
                                          tile[2], max_area)
             IN /\ blk_x_size' = size[1] /\ blk_y_size' = size[2]
                /\ n_blks' = IntToFloat(TotalBlocks(ds_x_size, ds_y_size,
                                                    size[1], size[2]))
                /\ \E outcome \in {"no src_buf", "no dst_buf", "ok"} :
                      /\ src_buf' = IF outcome = "no src_buf" THEN NULL
                                    ELSE [j \in 0..(size[1] * size[2] - 1)
                                            |-> UninitSample]
                      /\ dst_buf' = IF outcome = "ok"
                                    THEN [j \in 0..(3 * size[1] * size[2] - 1)
                                            |-> Uninit]
                                    ELSE NULL
                      /\ pc' = IF outcome # "ok" THEN "end"
                               ELSE IF with_pthreads THEN "contexts"
                               ELSE "loop"
    /\ UNCHANGED <<encVars, syncVars, thrVars, ds_x_size, ds_y_size, max_area,
                   loopVars, sinkVars, with_pthreads, argv, dst_path_exists,
                   ret, n_threads, user_nodata, src, dst>>

\* lines 259-264: the CTX array; its fields are indeterminate
AllocContexts ==
    /\ pc = "contexts"
    /\ \/ /\ contexts' = [t \in 0..(n_threads - 1) |->
                            [off |-> Uninit, area |-> Uninit, go |-> Uninit]]
          /\ tpc' = [t \in 0..(n_threads - 1) |-> "none"]
          /\ i' = 0
          /\ pc' = "spawn"
       \/ /\ pc' = "end"
          /\ UNCHANGED <<contexts, tpc, i>>
    /\ UNCHANGED <<encVars, syncVars, bufVars, geoVars, n, x, y, err,
                   sinkVars, with_pthreads, argv, dst_path_exists, ret,
                   n_threads, user_nodata, src, dst>>

\* lines 265-270: one iteration of the creation loop, or its exit;
\* a failing pthread_create ends the process in abort()
Spawn ==
    /\ pc = "spawn"
    /\ IF i < n_threads
       THEN \/ /\ contexts' = [contexts EXCEPT ![i].go = 0]
               /\ tpc' = [tpc EXCEPT ![i] = "lock_go"]
               /\ i' = i + 1
               /\ pc' = pc
            \/ /\ contexts' = [contexts EXCEPT ![i].go = 0]
               /\ pc' = "aborted"
               /\ UNCHANGED <<tpc, i>>
       ELSE /\ pc' = "loop"
            /\ UNCHANGED <<contexts, tpc, i>>
    /\ UNCHANGED <<encVars, syncVars, bufVars, geoVars, n, x, y, err,
                   sinkVars, with_pthreads, argv, dst_path_exists, ret,
                   n_threads, user_nodata, src, dst>>

\* where main goes when the block loop ends (lines 334 and 346)
AfterLoop == IF with_pthreads THEN "shutdown" ELSE "ret0"

\* lines 273-275: loop initialisation and first test
LoopEnter ==
    /\ pc = "loop"
    /\ n' = 0 /\ y' = 0 /\ x' = 0
    /\ pc' = IF 0 < ds_y_size /\ 0 < ds_x_size THEN "read" ELSE AfterLoop
    /\ UNCHANGED <<encVars, syncVars, thrVars, bufVars, geoVars, i, err,
                   sinkVars, with_pthreads, argv, dst_path_exists, ret,
                   n_threads, user_nodata, src, dst>>

\* the samples a read stores in src_buf[0 .. area-1]
SamplePattern(k, j) == Samples[((j + k) % 2) + 1]

\* where main goes after GDALRasterIO (lines 286-290 and 295/318)
AfterRead(e) ==
    IF e # "CE_None" THEN "end"
    ELSE IF with_pthreads THEN "dispatch" ELSE "z2rgb"

\* lines 280-293: read the block into src_buf
ReadBlock ==
    /\ pc = "read"
    /\ \/ /\ err' = "CE_None"
          /\ \E k \in {0, 1} :
                src_buf' = [j \in DOMAIN src_buf |->
                               IF j < Area THEN SamplePattern(k, j)
                               ELSE src_buf[j]]
       \/ /\ err' = "CE_Failure"
          /\ UNCHANGED src_buf
    /\ pc' = AfterRead(err')
    /\ UNCHANGED <<encVars, syncVars, thrVars, dst_buf, geoVars, n, x, y, i,
                   sinkVars, with_pthreads, argv, dst_path_exists, ret,
                   n_threads, user_nodata, src, dst>>

\* line 318, builds without WITH_PTHREADS: z2rgb(src_buf, dst_buf, area)
SequentialEncode ==
    /\ pc = "z2rgb"
    /\ \E run \in Z2rgbRuns(src_buf, 0, Area) :
          dst_buf' = Z2rgbStore(dst_buf, run, 0, Area, 2 * Area)
    /\ pc' = "write"
    /\ UNCHANGED <<encVars, syncVars, thrVars, src_buf, geoVars, loopVars,
                   sinkVars, with_pthreads, argv, dst_path_exists, ret,
                   n_threads, user_nodata, src, dst>>

\* line 296: thread_area = area / n_threads
ThreadAreaOffByOne(area, nthr) == area \div (nthr + 1)
ThreadArea(area, nthr) == area \div nthr
\* line 303: ctx->area = MIN(area, off + thread_area) - off
CtxAreaToEnd(area, off, thread_area) == area - off
CtxArea(area, off, thread_area) == Min(area, off + thread_area) - off

\* line 297: wait_sem = n_threads
ResetValueOneShort(nthr) == nthr - 1
ResetValue(nthr) == nthr

\* lines 296-297: thread_area, and the counter reset, before any lock
ResetWaitSem ==
    /\ pc = "dispatch"
    /\ wait_sem' = ResetValue(n_threads)
    /\ pc' = "lock_go"
    /\ UNCHANGED <<encVars, go_mutex, wait_mutex, go_cond, wait_cond, thrVars,
                   bufVars, geoVars, loopVars, sinkVars, with_pthreads, argv,
                   dst_path_exists, ret, n_threads, user_nodata, src, dst>>

\* line 298
DispatchLock ==
    /\ pc = "lock_go"
    /\ go_mutex = FREE
    /\ go_mutex' = MAIN
    /\ pc' = "fill"
    /\ UNCHANGED <<encVars, wait_sem, wait_mutex, go_cond, wait_cond, thrVars,
                   bufVars, geoVars, loopVars, sinkVars, with_pthreads, argv,
                   dst_path_exists, ret, n_threads, user_nodata, src, dst>>

\* lines 299-311: the assignments, the broadcast and the unlock
Dispatch ==
    /\ pc = "fill"
    /\ LET thread_area == ThreadArea(Area, n_threads)
       IN contexts' = [t \in DOMAIN contexts |->
                          [off |-> thread_area * t,
                           area |-> CtxArea(Area, thread_area * t, thread_area),
                           go |-> 1]]
    /\ go_cond' = {}
    /\ go_mutex' = FREE
    /\ pc' = "lock_wait"
    /\ UNCHANGED <<encVars, wait_sem, wait_mutex, wait_cond, tpc, bufVars,
                   geoVars, loopVars, sinkVars, with_pthreads, argv,
                   dst_path_exists, ret, n_threads, user_nodata, src, dst>>

\* line 313
BarrierLock ==
    /\ pc = "lock_wait"
    /\ wait_mutex = FREE
    /\ wait_mutex' = MAIN
    /\ pc' = "check_wait"
    /\ UNCHANGED <<encVars, wait_sem, go_mutex, go_cond, wait_cond, thrVars,
                   bufVars, geoVars, loopVars, sinkVars, with_pthreads, argv,
                   dst_path_exists, ret, n_threads, user_nodata, src, dst>>

\* line 314: while (wait_sem != 0)
MustWaitNever(sem) == FALSE
MustWaitForAllButOne(sem) == sem > 1
MustWait(sem) == sem # 0

\* lines 314-316: wait on wait_cond (which releases wait_mutex), or leave
\* the loop and unlock
BarrierCheck ==
    /\ pc = "check_wait"
    /\ wait_mutex' = FREE
    /\ IF MustWait(wait_sem)
       THEN wait_cond' = {MAIN} /\ pc' = "wait_cond"
       ELSE UNCHANGED wait_cond /\ pc' = "write"
    /\ UNCHANGED <<encVars, wait_sem, go_mutex, go_cond, thrVars, bufVars,
                   geoVars, loopVars, sinkVars, with_pthreads, argv,
                   dst_path_exists, ret, n_threads, user_nodata, src, dst>>

\* line 315: pthread_cond_wait returns, with wait_mutex locked again
BarrierWake ==
    /\ pc = "wait_cond"
    /\ MAIN \notin wait_cond
    /\ wait_mutex = FREE
    /\ wait_mutex' = MAIN
    /\ pc' = "check_wait"
    /\ UNCHANGED <<encVars, wait_sem, go_mutex, go_cond, wait_cond, thrVars,
                   bufVars, geoVars, loopVars, sinkVars, with_pthreads, argv,
                   dst_path_exists, ret, n_threads, user_nodata, src, dst>>

\* where main goes after GDALDatasetRasterIO (lines 324-330)
AfterWriteIgnoringError(e) == "progress"
AfterWrite(e) == IF e # "CE_None" THEN "end" ELSE "progress"

\* lines 321-328: hand dst_buf to the Sink
WriteBlock ==
    /\ pc = "write"
    /\ \/ /\ err' = "CE_None"
          /\ written' = written \cup {<<x, y>>}
       \/ /\ err' = "CE_Failure"
          /\ UNCHANGED written
    /\ pc' = AfterWrite(err')
    /\ UNCHANGED <<encVars, syncVars, thrVars, bufVars, geoVars, n, x, y, i,
                   create_called, with_pthreads, argv, dst_path_exists, ret,
                   n_threads, user_nodata, src, dst>>

\* lines 330-331, then the loop increments and tests of lines 274-275
Progress ==
    /\ pc = "progress"
    /\ n' = n + 1
    /\ IF x + blk_x_size < ds_x_size
       THEN x' = x + blk_x_size /\ y' = y /\ pc' = "read"
       ELSE /\ y' = y + blk_y_size
            /\ IF y' < ds_y_size
               THEN x' = 0 /\ pc' = "read"
               ELSE x' = x + blk_x_size /\ pc' = AfterLoop
    /\ UNCHANGED <<encVars, syncVars, thrVars, bufVars, geoVars, i, err,
                   sinkVars, with_pthreads, argv, dst_path_exists, ret,
                   n_threads, user_nodata, src, dst>>

\* line 335
ShutdownLock ==
    /\ pc = "shutdown"
    /\ go_mutex = FREE
    /\ go_mutex' = MAIN
    /\ pc' = "terminate"
    /\ UNCHANGED <<encVars, wait_sem, wait_mutex, go_cond, wait_cond, thrVars,
                   bufVars, geoVars, loopVars, sinkVars, with_pthreads, argv,
                   dst_path_exists, ret, n_threads, user_nodata, src, dst>>

\* line 337: contexts[i].go = -1
TerminateGoKept(go) == go
TerminateGo(go) == -1

\* lines 336-339: the terminate sentinel, the broadcast and the unlock
Shutdown ==
    /\ pc = "terminate"
    /\ contexts' = [t \in DOMAIN contexts |->
                       [contexts[t] EXCEPT !.go = TerminateGo(@)]]
    /\ go_cond' = {}
    /\ go_mutex' = FREE
    /\ i' = 0
    /\ pc' = "join"
    /\ UNCHANGED <<encVars, wait_sem, wait_mutex, wait_cond, tpc, bufVars,
                   geoVars, n, x, y, err, sinkVars, with_pthreads, argv,
                   dst_path_exists, ret, n_threads, user_nodata, src, dst>>

\* lines 340-343: pthread_join returns once the thread has exited
Join ==
    /\ pc = "join"
    /\ IF i < n_threads
       THEN /\ tpc[i] = "exited"
            /\ tpc' = [tpc EXCEPT ![i] = "joined"]
            /\ i' = i + 1
            /\ pc' = pc
       ELSE /\ pc' = "ret0"
            /\ UNCHANGED <<tpc, i>>
    /\ UNCHANGED <<encVars, syncVars, contexts, bufVars, geoVars, n, x, y,
                   err, sinkVars, with_pthreads, argv, dst_path_exists, ret,
                   n_threads, user_nodata, src, dst>>

\* line 346
ReturnZero ==
    /\ pc = "ret0"
    /\ ret' = 0
    /\ pc' = "end"
    /\ UNCHANGED <<encVars, syncVars, thrVars, bufVars, geoVars, loopVars,
                   sinkVars, with_pthreads, argv, dst_path_exists, n_threads,
                   user_nodata, src, dst>>

\* free(ptr)
Released(ptr) == IF ptr = NULL THEN NULL ELSE FREED

\* lines 347-362: close the datasets, free the buffers, destroy the pool's
\* locks and conditions, free the contexts
Cleanup ==
    /\ pc = "end"
    /\ src' = (IF src # NULL THEN CLOSED ELSE NULL)
    /\ dst' = (IF dst # NULL THEN CLOSED ELSE NULL)
    /\ src_buf' = Released(src_buf)
    /\ dst_buf' = Released(dst_buf)
    /\ IF with_pthreads
       THEN /\ go_mutex' = DESTROYED /\ wait_mutex' = DESTROYED
            /\ contexts' = Released(contexts)
       ELSE UNCHANGED <<go_mutex, wait_mutex, contexts>>
    /\ pc' = "return"
    /\ UNCHANGED <<encVars, wait_sem, go_cond, wait_cond, tpc, geoVars,
                   loopVars, sinkVars, with_pthreads, argv, dst_path_exists,
                   ret, n_threads, user_nodata>>

\* line 363: main returns and the process ends, with every thread in it
Return ==
    /\ pc = "return"
    /\ pc' = "done"
    /\ UNCHANGED <<encVars, syncVars, thrVars, bufVars, geoVars, loopVars,
                   sinkVars, with_pthreads, argv, dst_path_exists, ret,
                   n_threads, user_nodata, src, dst>>

(***************************************************************************)
(* thread_run (lines 421-446), for worker t.                               *)
(***************************************************************************)
\* the process is running, and the pool's objects have not been released
Running == pc \notin {"done", "aborted"}
PoolLive == contexts \notin {NULL, FREED}

\* line 426
T_LockGo(t) ==
    /\ Running /\ PoolLive
    /\ tpc[t] = "lock_go"
    /\ go_mutex = FREE
    /\ go_mutex' = WORKER(t)
    /\ tpc' = [tpc EXCEPT ![t] = "check_go"]
    /\ UNCHANGED <<encVars, wait_sem, wait_mutex, go_cond, wait_cond,
                   contexts, bufVars, geoVars, loopVars, sinkVars,
                   with_pthreads, argv, dst_path_exists, pc, ret, n_threads,
                   user_nodata, src, dst>>

\* line 435: pthread_mutex_unlock(&go_mutex), before z2rgb is called
GoMutexKeptAfterTake(t) == WORKER(t)
GoMutexAfterTake(t) == FREE

\* line 434: ctx->go = 0
TakenGoKept(go) == go
TakenGo(go) == 0

\* lines 427-434, holding go_mutex: wait on go_cond (which releases the
\* mutex), or leave on the sentinel, or take the assignment
T_CheckGo(t) ==
    /\ Running /\ PoolLive
    /\ tpc[t] = "check_go"
    /\ go_mutex' = IF contexts[t].go \in {0, -1} THEN FREE
                    ELSE GoMutexAfterTake(t)
    /\ IF contexts[t].go = 0
       THEN /\ go_cond' = go_cond \cup {t}
            /\ tpc' = [tpc EXCEPT ![t] = "wait_go"]
            /\ UNCHANGED contexts
       ELSE IF contexts[t].go = -1
       THEN /\ tpc' = [tpc EXCEPT ![t] = "exited"]
            /\ UNCHANGED <<go_cond, contexts>>
       ELSE /\ contexts' = [contexts EXCEPT
                            ![t].go = TakenGo(contexts[t].go)]
            /\ tpc' = [tpc EXCEPT ![t] = "z2rgb"]
            /\ UNCHANGED go_cond
    /\ UNCHANGED <<encVars, wait_sem, wait_mutex, wait_cond, bufVars, geoVars,
                   loopVars, sinkVars, with_pthreads, argv, dst_path_exists,
                   pc, ret, n_threads, user_nodata, src, dst>>

\* line 428: pthread_cond_wait returns, with go_mutex locked again
T_WakeGo(t) ==
    /\ Running /\ PoolLive
    /\ tpc[t] = "wait_go"
    /\ t \notin go_cond
    /\ go_mutex = FREE
    /\ go_mutex' = WORKER(t)
    /\ tpc' = [tpc EXCEPT ![t] = "check_go"]
    /\ UNCHANGED <<encVars, wait_sem, wait_mutex, go_cond, wait_cond,
                   contexts, bufVars, geoVars, loopVars, sinkVars,
                   with_pthreads, argv, dst_path_exists, pc, ret, n_threads,
                   user_nodata, src, dst>>

\* line 436: z2rgb(ctx->src, ctx->dst, ctx->area); the planes dst_buf[1]
\* and dst_buf[2] start at area and 2 * area (lines 292-293)
T_Z2rgb(t) ==
    /\ Running /\ PoolLive
    /\ tpc[t] = "z2rgb"
    /\ src_buf \notin {NULL, FREED} /\ dst_buf \notin {NULL, FREED}
    /\ LET off == contexts[t].off
       IN \E run \in Z2rgbRuns(src_buf, off, contexts[t].area) :
             dst_buf' = Z2rgbStore(dst_buf, run, off, Area + off,
                                   2 * Area + off)
    /\ tpc' = [tpc EXCEPT ![t] = "lock_wait"]
    /\ UNCHANGED <<encVars, syncVars, contexts, src_buf, geoVars, loopVars,
                   sinkVars, with_pthreads, argv, dst_path_exists, pc, ret,
                   n_threads, user_nodata, src, dst>>

\* line 438
T_LockWait(t) ==
    /\ Running /\ PoolLive
    /\ tpc[t] = "lock_wait"
    /\ wait_mutex = FREE
    /\ wait_mutex' = WORKER(t)
    /\ tpc' = [tpc EXCEPT ![t] = "dec"]
    /\ UNCHANGED <<encVars, wait_sem, go_mutex, go_cond, wait_cond, contexts,
                   bufVars, geoVars, loopVars, sinkVars, with_pthreads, argv,
                   dst_path_exists, pc, ret, n_threads, user_nodata, src,
                   dst>>

\* line 440: if (wait_sem == 0)
MustSignalNever(sem) == FALSE
MustSignalAlways(sem) == TRUE
MustSignal(sem) == sem = 0

\* lines 439-442, holding wait_mutex: decrement, signal at zero, unlock
T_Done(t) ==
    /\ Running /\ PoolLive
    /\ tpc[t] = "dec"
    /\ wait_sem' = wait_sem - 1
    /\ wait_cond' = IF MustSignal(wait_sem') THEN {} ELSE wait_cond
    /\ wait_mutex' = FREE
    /\ tpc' = [tpc EXCEPT ![t] = "lock_go"]
    /\ UNCHANGED <<encVars, go_mutex, go_cond, contexts, bufVars, geoVars,
                   loopVars, sinkVars, with_pthreads, argv, dst_path_exists,
                   pc, ret, n_threads, user_nodata, src, dst>>

\* a worker that runs on after main has destroyed the locks and freed the
\* contexts uses released objects: its behaviour is undefined
T_Undefined(t) ==
    /\ Running /\ ~PoolLive
    /\ tpc[t] \in {"lock_go", "check_go", "z2rgb", "lock_wait", "dec"}
    /\ tpc' = [tpc EXCEPT ![t] = "undefined"]
    /\ UNCHANGED <<encVars, syncVars, contexts, bufVars, geoVars, loopVars,
                   sinkVars, with_pthreads, argv, dst_path_exists, pc, ret,
                   n_threads, user_nodata, src, dst>>

\* pthread_cond_wait may return without a signal (spurious wake-up)
SpuriousWake ==
    /\ Running
    /\ \/ \E t \in go_cond : go_cond' = go_cond \ {t} /\ UNCHANGED wait_cond
       \/ MAIN \in wait_cond /\ wait_cond' = {} /\ UNCHANGED go_cond
    /\ UNCHANGED <<encVars, wait_sem, go_mutex, wait_mutex, thrVars, bufVars,
                   geoVars, loopVars, sinkVars, with_pthreads, argv,
                   dst_path_exists, pc, ret, n_threads, user_nodata, src,
                   dst>>

MainStep ==
    \/ ParseArgs \/ CheckOptions \/ OpenSource \/ ReadBand \/ CreateDest
    \/ PlanBuffers \/ AllocContexts \/ Spawn \/ LoopEnter \/ ReadBlock
    \/ SequentialEncode \/ ResetWaitSem \/ DispatchLock \/ Dispatch
    \/ BarrierLock \/ BarrierCheck \/ BarrierWake \/ WriteBlock \/ Progress
    \/ ShutdownLock \/ Shutdown \/ Join \/ ReturnZero \/ Cleanup \/ Return

ThreadStep(t) ==
    \/ T_LockGo(t) \/ T_CheckGo(t) \/ T_WakeGo(t) \/ T_Z2rgb(t)
    \/ T_LockWait(t) \/ T_Done(t) \/ T_Undefined(t)

Next ==
    \/ MainStep
    \/ \E t \in Threads : ThreadStep(t)
    \/ SpuriousWake

Spec == Init /\ [][Next]_vars

(***************************************************************************)
(* SpecPool: the Worker Pool's life under fair scheduling.  A run starts   *)
(* where main is about to allocate the contexts (line 260), for each       *)
(* raster size and worker count within the bounds, and takes the steps of  *)
(* main from there on and those of the workers.  Fairness: every thread    *)
(* that can take a step infinitely often eventually takes one (a mutex     *)
(* that is free again and again is eventually acquired by each thread      *)
(* blocked on it).  Spurious wake-ups may happen but are never required.   *)
(***************************************************************************)
InitPool ==
    /\ resolution = FOne /\ src_nodata = BandNoNodata /\ dst_nodata = 0
    /\ has_nodata = 0 /\ scale_min = 1 /\ scale_max = 2
    /\ scale_range = ScaleRangeOf(1, 2)
    /\ wait_sem = 0 /\ go_mutex = FREE /\ wait_mutex = FREE
    /\ go_cond = {} /\ wait_cond = {}
    /\ contexts = NULL /\ tpc = <<>>
    /\ with_pthreads = TRUE /\ argv = "options" /\ dst_path_exists = FALSE
    /\ pc = "contexts" /\ ret = 1
    /\ n_threads \in 1..MaxThreads
    /\ user_nodata = 0 /\ src = OPEN /\ dst = OPEN
    /\ ds_x_size \in 1..MaxDsX /\ ds_y_size \in 1..MaxDsY
    /\ tile_x = 1 /\ tile_y = 1 /\ max_area = BufBudget
    /\ LET size == CalculateBufSize(ds_x_size, ds_y_size, 1, 1, BufBudget)
       IN /\ blk_x_size = size[1] /\ blk_y_size = size[2]
          /\ n_blks = IntToFloat(TotalBlocks(ds_x_size, ds_y_size, size[1],
                                             size[2]))
          /\ src_buf = [j \in 0..(size[1] * size[2] - 1) |-> UninitSample]
          /\ dst_buf = [j \in 0..(3 * size[1] * size[2] - 1) |-> Uninit]
    /\ n = 0 /\ x = 0 /\ y = 0 /\ i = 0 /\ err = "CE_None"
    /\ written = {} /\ create_called = TRUE

PoolMainStep ==
    \/ AllocContexts \/ Spawn \/ LoopEnter \/ ReadBlock \/ ResetWaitSem
    \/ DispatchLock \/ Dispatch \/ BarrierLock \/ BarrierCheck \/ BarrierWake
    \/ WriteBlock \/ Progress \/ ShutdownLock \/ Shutdown \/ Join
    \/ ReturnZero \/ Cleanup \/ Return

NextPool ==
    \/ PoolMainStep
    \/ \E t \in Threads : ThreadStep(t)
    \/ SpuriousWake

\* worker t's steps on the mutexes and condition variables, and its exit
WorkerSyncStep(t) ==
    /\ t \in Threads
    /\ \/ T_LockGo(t) \/ T_CheckGo(t) \/ T_WakeGo(t)
       \/ T_LockWait(t) \/ T_Done(t) \/ T_Undefined(t)
\* worker t can run z2rgb (it has taken an assignment and the buffers exist)
Z2rgbReady(t) ==
    /\ Running /\ PoolLive /\ t \in Threads /\ tpc[t] = "z2rgb"
    /\ src_buf \notin {NULL, FREED} /\ dst_buf \notin {NULL, FREED}

\* strong fairness for main and for each worker's synchronisation steps;
\* weak fairness for each worker's z2rgb call, written out with Z2rgbReady
\* as the enabling condition of T_Z2rgb
Fairness ==
    /\ SF_vars(PoolMainStep)
    /\ \A t \in 0..(MaxThreads - 1) :
          /\ SF_vars(WorkerSyncStep(t))
          /\ \/ []<>(~Z2rgbReady(t))
             \/ []<><<t \in Threads /\ T_Z2rgb(t)>>_vars

SpecPool == InitPool /\ [][NextPool]_vars /\ Fairness

(***************************************************************************)
(* Claims about main and thread_run (Spec).                                *)
(***************************************************************************)
\* the positions of main inside the block loop, and after the jump to end
BlockPcs == {"read", "z2rgb", "dispatch", "lock_go", "fill", "lock_wait",
             "check_wait", "wait_cond", "write", "progress"}
EndPcs == {"end", "return", "done"}

\* the bytes of the current block's three planes are what z2rgb over the
\* whole block [0, area) stores for the samples in src_buf
BlockMatchesSequential ==
    \E run \in Z2rgbRuns(src_buf, 0, Area) :
        \A j \in 0..(Area - 1) :
            /\ dst_buf[j] = run[j + 1][1]
            /\ dst_buf[Area + j] = run[j + 1][2]
            /\ dst_buf[2 * Area + j] = run[j + 1][3]

\* the indices assigned to worker t by the last dispatch
Assigned(t) == contexts[t].off .. (contexts[t].off + contexts[t].area - 1)

\* C1: for any block and any worker count N in {1,2,4,8}, under every
\* interleaving, the Destination buffer the Worker Pool path hands to the
\* Sink is byte-identical to what z2rgb over the whole block produces.
C1_PoolEqualsSequential ==
    (with_pthreads /\ n_threads \in {1, 2, 4, 8} /\ pc = "write") =>
        BlockMatchesSequential

\* C2: in every dispatch the ranges [off_i, off_i + ctx[i].area) of the N
\* workers union to exactly [0, A), without gap or overlap, and their
\* sizes differ by at most 1.
C2_PartitionComplete ==
    (with_pthreads /\ pc \in {"lock_wait", "check_wait", "wait_cond",
                              "write"}) =>
        /\ UNION {Assigned(t) : t \in DOMAIN contexts} = 0..(Area - 1)
        /\ \A t, u \in DOMAIN contexts :
              t # u => Assigned(t) \cap Assigned(u) = {}
        /\ \A t, u \in DOMAIN contexts :
              contexts[t].area - contexts[u].area \in {-1, 0, 1}

\* C3: hard barrier: whenever main is at the Sink write of a block, or at
\* the Source read that overwrites src_buf for the next block, every worker
\* has taken its assignment of the current block and finished z2rgb on it.
C3_HardBarrier ==
    (with_pthreads /\ pc \in {"write", "progress", "read"}) =>
        \A t \in DOMAIN tpc :
            /\ tpc[t] \notin {"none", "z2rgb"}
            /\ contexts[t].go = 0

\* main reads the second block while two workers have encoded the first
C3_Witness ==
    /\ with_pthreads /\ pc = "read" /\ n >= 1 /\ n_threads >= 2
    /\ dst_buf[0] # Uninit

\* C4: in every run that returns non-zero after the pool was created (a
\* block read or write error), all workers are terminated and joined
\* before the buffers are freed and main returns.
C4_FailureJoinsPool ==
    (pc \in {"return", "done"} /\ ret # 0 /\ Threads # {}) =>
        \A t \in Threads : tpc[t] = "joined"

\* C5: a failing block read or write aborts the run at once: main is on
\* its way out with a non-zero status, the failing block is neither
\* counted nor persisted, and from then on no block is read, dispatched,
\* written or counted; status 0 is returned only for -help or when every
\* block has been read, transformed and written.
C5_AbortOnFailure ==
    /\ [](err = "CE_Failure" =>
             /\ pc \in EndPcs /\ ret # 0
             /\ <<x, y>> \notin written
             /\ n = Cardinality(written))
    /\ []((pc \in EndPcs /\ ret = 0) =>
             \/ argv = "-help"
             \/ /\ n = TotalBlocks(ds_x_size, ds_y_size, blk_x_size,
                                   blk_y_size)
                /\ written = {<<bx, by>> \in (0..(ds_x_size - 1))
                                             \X (0..(ds_y_size - 1)) :
                                 bx % blk_x_size = 0 /\ by % blk_y_size = 0})
    /\ [][err = "CE_Failure" =>
             /\ UNCHANGED <<n, x, y, err, written, ret>>
             /\ pc' \in EndPcs]_vars

\* a write fails after a block has been completed, and main has returned
C5_Witness ==
    /\ pc = "done" /\ err = "CE_Failure" /\ n >= 1 /\ ret = 1
    /\ Cardinality(written) >= 1

\* the conditions spec.md section 7 lists as ConfigurationError, on the
\* configuration the run works with
ConfigurationError ==
    \/ scale_max - scale_min + 1 <= 0
    \/ FLeqZero(resolution)
    \/ with_pthreads /\ n_threads < 1
    \/ has_nodata # 0 /\ (dst_nodata < scale_min \/ scale_max < dst_nodata)
    \/ dst_path_exists

\* C6: in every run in which a ConfigurationError condition holds, the run
\* ends with a non-zero status and GDALCreate is never reached.
C6_ConfigErrorsBeforeCreate ==
    (argv = "options" /\ pc \notin {"args", "check"} /\ ConfigurationError) =>
        /\ ~create_called
        /\ pc = "done" => ret # 0

\* C7 as stated: with the worker count forced to one, no worker thread is
\* created and no lock or condition variable is used during block
\* processing.
C7_OneThreadIsSequential ==
    (with_pthreads /\ n_threads = 1 /\ pc \in BlockPcs) =>
        /\ Threads = {}
        /\ go_mutex = FREE /\ wait_mutex = FREE
        /\ go_cond = {} /\ wait_cond = {}

\* C7 amended: with the worker count forced to one in a build with
\* WITH_PTHREADS the pool still exists, with exactly one worker thread,
\* which is assigned the whole block [0, area), so the buffer handed to
\* the Sink is the sequential result; the fallback without thread, lock
\* and condition variable is the build without WITH_PTHREADS.
C7_OneWorkerWholeBlock ==
    /\ (with_pthreads /\ n_threads = 1 /\ pc \in BlockPcs) =>
          Threads = {0}
    /\ (with_pthreads /\ n_threads = 1 /\ pc = "write") =>
          /\ contexts[0].off = 0 /\ contexts[0].area = Area
          /\ BlockMatchesSequential
    /\ ~with_pthreads =>
          /\ Threads = {}
          /\ go_mutex = FREE /\ wait_mutex = FREE
          /\ go_cond = {} /\ wait_cond = {}
          /\ pc = "write" => BlockMatchesSequential

\* one worker has encoded a block of two samples and main is at the write
C7_Witness ==
    /\ with_pthreads /\ n_threads = 1 /\ pc = "write"
    /\ Area >= 2 /\ tpc[0] # "none" /\ wait_sem = 0

\* worker t is inside thread_run's loop (created, and not past the break)
InLoop(t) == tpc[t] \in {"lock_go", "check_go", "wait_go", "z2rgb",
                         "lock_wait", "dec"}
\* worker t has left the loop on the terminate sentinel
Terminated(t) == tpc[t] \in {"exited", "joined"}

\* C11: each worker runs z2rgb exactly once per dispatch.  A worker enters
\* z2rgb only by taking a raised readiness flag, which it clears in the
\* same step; a flag is raised only by the dispatch of main, and main
\* dispatches only when every flag of the previous dispatch has been taken
\* and its z2rgb run and decrement are over; at the barrier release every
\* flag of the current dispatch has been taken; and a worker that has left
\* its loop on the sentinel stays out of it.
C11_OnceRunPerDispatch ==
    /\ [][\A t \in DOMAIN tpc :
             /\ (tpc[t] # "z2rgb" /\ tpc'[t] = "z2rgb") =>
                   /\ contexts[t].go = 1 /\ contexts'[t].go = 0
                   /\ tpc[t] = "check_go"
             /\ (PoolLive /\ contexts' \notin {NULL, FREED}
                 /\ contexts[t].go # 1 /\ contexts'[t].go = 1) =>
                   pc = "fill" /\ pc' = "lock_wait"
             /\ Terminated(t) => Terminated(t)']_vars
    /\ [](with_pthreads /\ pc = "fill" =>
             \A t \in DOMAIN tpc :
                 /\ contexts[t].go # 1
                 /\ tpc[t] \in {"lock_go", "check_go", "wait_go"})
    /\ [](with_pthreads /\ pc = "write" =>
             \A t \in DOMAIN tpc :
                 /\ contexts[t].go = 0
                 /\ tpc[t] \in {"lock_go", "check_go", "wait_go"})

\* after two blocks, one of two workers has left its loop on the sentinel
\* while the other has not yet looked at it
C11_Witness ==
    /\ with_pthreads /\ pc = "join" /\ n >= 2 /\ n_threads = 2
    /\ \E t, u \in DOMAIN tpc : tpc[t] = "exited" /\ InLoop(u)
    /\ dst_buf[0] # Uninit

\* the blocks of the raster, by origin
AllBlocks ==
    {<<bx, by>> \in (0..(ds_x_size - 1)) \X (0..(ds_y_size - 1)) :
        bx % blk_x_size = 0 /\ by % blk_y_size = 0}

\* C12: under fair scheduling every dispatch is eventually followed by the
\* barrier release with wait_sem = 0, and every run that created its pool
\* eventually returns (or ends in abort() when pthread_create fails): with
\* every block written and status 0 unless a read or write failed, with a
\* non-zero status if one did.
C12_Progress ==
    /\ (pc = "lock_wait") ~> (pc = "write" /\ wait_sem = 0)
    /\ (pc = "spawn") ~>
          \/ pc = "aborted"
          \/ pc = "done" /\ err = "CE_Failure" /\ ret # 0
          \/ pc = "done" /\ err = "CE_None" /\ ret = 0 /\ written = AllBlocks

\* main is blocked on wait_cond while a worker is still encoding
C12_Witness ==
    /\ with_pthreads /\ pc = "wait_cond" /\ MAIN \in wait_cond
    /\ n_threads = 2 /\ n >= 1
    /\ \E t \in Threads : tpc[t] = "z2rgb"

\* C13: normal shutdown.  After the last block main sets the terminate
\* sentinel of every worker while it holds go_mutex and wakes all workers;
\* under fair scheduling every worker then leaves its loop and every join
\* returns; and when a run that completed its blocks releases the buffers,
\* the locks and conditions or the contexts, every worker has been joined.
C13_ShutdownTerminates ==
    /\ [](pc = "terminate" => go_mutex = MAIN)
    /\ [][(pc = "terminate" /\ pc' # pc) =>
             /\ pc' = "join"
             /\ \A t \in DOMAIN tpc : contexts'[t].go = -1
             /\ go_cond' = {} /\ go_mutex' = FREE]_vars
    /\ (pc = "shutdown") ~>
          (pc = "ret0" /\ \A t \in DOMAIN tpc : tpc[t] = "joined")
    /\ []((ret = 0 /\ (src_buf = FREED \/ dst_buf = FREED \/ contexts = FREED
                       \/ go_mutex = DESTROYED \/ wait_mutex = DESTROYED)) =>
             \A t \in DOMAIN tpc : tpc[t] = "joined")

\* a completed run of two workers has released everything
C13_Witness ==
    /\ pc = "return" /\ ret = 0 /\ n_threads = 2 /\ n >= 2
    /\ contexts = FREED /\ src_buf = FREED /\ go_mutex = DESTROYED
    /\ \A t \in DOMAIN tpc : tpc[t] = "joined"

\* the positions at which a thread reads or writes the shared state:
\* main writes ctx->go at "spawn" (line 267), "fill" (line 308) and
\* "terminate" (line 337) and the assignment at "fill"; it writes wait_sem
\* at "dispatch" (line 297) and reads it at "check_wait" (line 314);
\* a worker reads and writes ctx->go at "check_go" (lines 427-434), reads
\* its assignment at "z2rgb" (line 436) and decrements wait_sem at "dec"
MainHoldsGo == go_mutex = MAIN
MainHoldsWait == wait_mutex = MAIN

\* C14 as stated: every access to ctx->go and the assignment is made with
\* go_mutex held by the accessing thread, and every access to wait_sem,
\* the reset at dispatch included, with a lock held by that thread.
C14_EveryAccessLocked ==
    /\ pc \in {"fill", "terminate"} => MainHoldsGo
    /\ (pc = "spawn" /\ i < n_threads) => MainHoldsGo
    /\ pc \in {"dispatch", "check_wait"} => (MainHoldsWait \/ MainHoldsGo)
    /\ PoolLive =>
          \A t \in Threads :
              /\ tpc[t] \in {"check_go", "z2rgb"} => go_mutex = WORKER(t)
              /\ tpc[t] = "dec" => wait_mutex = WORKER(t)

\* C14 amended: ctx->go is read and written under go_mutex and wait_sem
\* under wait_mutex, except for three accesses made with no lock held,
\* each at a moment when no other thread can touch the location: main's
\* ctx->go = 0 before the thread of that context exists, main's reset of
\* wait_sem while every worker is between its decrement and its next take
\* of a flag, and a worker's read of its assignment while main is inside
\* the barrier.
C14_LockedOrExclusive ==
    /\ pc \in {"fill", "terminate"} => MainHoldsGo
    /\ pc = "check_wait" => MainHoldsWait
    /\ (pc = "spawn" /\ i < n_threads) =>
          /\ ~MainHoldsGo
          /\ tpc[i] = "none"
    /\ pc = "dispatch" =>
          /\ ~MainHoldsWait /\ ~MainHoldsGo
          /\ \A t \in Threads :
                /\ tpc[t] \in {"lock_go", "check_go", "wait_go"}
                /\ contexts[t].go = 0
    /\ PoolLive =>
          \A t \in Threads :
              /\ tpc[t] = "check_go" => go_mutex = WORKER(t)
              /\ tpc[t] = "dec" => wait_mutex = WORKER(t)
              /\ tpc[t] = "z2rgb" =>
                    /\ go_mutex # WORKER(t)
                    /\ pc \in {"lock_wait", "check_wait", "wait_cond"}

\* main resets wait_sem for the second block, holding no lock, while a
\* worker holds go_mutex
C14_Witness ==
    /\ pc = "dispatch" /\ n >= 1 /\ n_threads = 2
    /\ \E t \in Threads : go_mutex = WORKER(t) /\ tpc[t] = "check_go"

\* the workers that have not completed the current dispatch: the flag is
\* still raised, or the worker is between taking it and the end of its
\* decrement of wait_sem
Outstanding ==
    {t \in Threads : \/ contexts[t].go = 1
                     \/ tpc[t] \in {"z2rgb", "lock_wait", "dec"}}

\* C15: 0 <= wait_sem <= n_threads in every state; from the dispatch to the
\* barrier release wait_sem is the number of workers that have not
\* completed the dispatch; wait_sem changes only by main's reset to
\* n_threads and by a worker's decrement by one, made while that worker
\* holds wait_mutex, at most once per take of a flag; and a worker's
\* completion wakes main only when it has driven wait_sem to zero.
C15_OutstandingCounter ==
    /\ [](0 <= wait_sem /\ wait_sem <= n_threads)
    /\ []((PoolLive /\ pc \in {"lock_wait", "check_wait", "wait_cond"}) =>
             wait_sem = Cardinality(Outstanding))
    /\ [][wait_sem' # wait_sem =>
             \/ pc = "dispatch" /\ wait_sem' = n_threads
             \/ \E t \in Threads :
                   /\ tpc[t] = "dec" /\ wait_mutex = WORKER(t)
                   /\ tpc'[t] = "lock_go"
                   /\ wait_sem' = wait_sem - 1]_vars
    /\ [][(\E t \in Threads : tpc[t] = "dec" /\ tpc'[t] # "dec")
          /\ wait_cond' # wait_cond => wait_sem' = 0]_vars

\* main waits on wait_cond with one of two workers still outstanding
C15_Witness ==
    /\ pc = "wait_cond" /\ MAIN \in wait_cond /\ n_threads = 2
    /\ wait_sem = 1 /\ Cardinality(Outstanding) = 1
    /\ \E t \in Threads : tpc[t] = "dec"

\* C16: a worker that is inside z2rgb holds neither go_mutex nor
\* wait_mutex (so the workers' z2rgb calls can overlap).
C16_NoLockWhileEncoding ==
    \A t \in Threads :
        tpc[t] = "z2rgb" =>
            /\ go_mutex # WORKER(t)
            /\ wait_mutex # WORKER(t)

\* two workers are inside z2rgb at the same time
C16_Witness ==
    /\ n_threads = 2 /\ PoolLive
    /\ \A t \in Threads : tpc[t] = "z2rgb"
    /\ Cardinality(Threads) = 2

\* z2rgb is running: in main (build without WITH_PTHREADS) or in a worker
Encoding == pc = "z2rgb" \/ \E t \in Threads : tpc[t] = "z2rgb"

\* C17: whenever z2rgb runs with has_nodata set, scale_min <= dst_nodata
\* <= scale_max; a run whose destination nodata lies outside the scale
\* range ends with a non-zero status and encodes no block.
C17_NodataInScaleAtEncode ==
    /\ (Encoding /\ has_nodata # 0) =>
          (scale_min <= dst_nodata /\ dst_nodata <= scale_max)
    /\ (pc = "done" /\ argv = "options" /\ has_nodata # 0
        /\ (dst_nodata < scale_min \/ scale_max < dst_nodata)) =>
          (ret # 0 /\ written = {})

\* the blocks that precede the block at (bx, by) in row-major order
Preceding(bx, by) ==
    {b \in AllBlocks : b[2] < by \/ (b[2] = by /\ b[1] < bx)}
\* the raster cells of the block with origin b, clamped at the edges as in
\* lines 280-281
Cells(b) ==
    (b[1]..(Min(ds_x_size, b[1] + blk_x_size) - 1))
    \X (b[2]..(Min(ds_y_size, b[2] + blk_y_size) - 1))

\* C18: the main loop visits the blocks in row-major order, each once: at
\* every point of an iteration the origin (x, y) is a multiple of the block
\* size inside the raster, the clamped size is between 1 and the block
\* size, and the blocks written and counted so far are exactly the blocks
\* that precede (x, y); a block is written only by the iteration it
\* belongs to and was not written before; and when a run returns 0 the
\* written blocks are pairwise disjoint and cover the raster, n is the
\* precomputed total and n / n_blks is exactly 1.
C18_RowMajorCoverage ==
    /\ [](pc \in BlockPcs =>
             /\ <<x, y>> \in AllBlocks
             /\ 1 <= XSize /\ XSize <= blk_x_size
             /\ 1 <= YSize /\ YSize <= blk_y_size
             /\ n = Cardinality(Preceding(x, y))
             /\ written = Preceding(x, y)
                          \cup (IF pc = "progress" THEN {<<x, y>>} ELSE {}))
    /\ [][written' # written =>
             /\ pc = "write" /\ <<x, y>> \notin written
             /\ written' = written \cup {<<x, y>>}]_vars
    /\ []((pc \in EndPcs /\ ret = 0 /\ argv = "options") =>
             /\ written = AllBlocks
             /\ \A b, c \in written : b # c => Cells(b) \cap Cells(c) = {}
             /\ UNION {Cells(b) : b \in written}
                   = (0..(ds_x_size - 1)) \X (0..(ds_y_size - 1))
             /\ n = TotalBlocks(ds_x_size, ds_y_size, blk_x_size, blk_y_size)
             /\ FDiv(IntToFloat(n), n_blks) = FOne)

\* a completed run over a raster whose last block of a row, or last row
\* of blocks, is clamped
C18_Witness ==
    /\ pc = "done" /\ ret = 0 /\ argv = "options" /\ n >= 2
    /\ \/ ds_x_size % blk_x_size # 0
       \/ ds_y_size % blk_y_size # 0
    /\ blk_x_size * blk_y_size >= 2

\* the indices of the destination allocation that worker t's z2rgb call
\* writes: its range in each of the three planes (lines 304-307, 292-293)
DstIndices(t) ==
    UNION {{k * Area + j : j \in Assigned(t)} : k \in 0..2}
\* plane k of the current block inside the destination allocation
Plane(k) == (k * Area)..((k + 1) * Area - 1)

\* C19: in every dispatch the workers' index ranges are pairwise disjoint
\* and lie in [0, area), area is at most the allocated block area, each
\* worker's reads stay inside src_buf and its writes inside its own range
\* of each plane, and the three planes are pairwise disjoint and inside the
\* 3 * blk_area bytes of dst_buf; a worker runs z2rgb only between the
\* dispatch and the barrier release, when these assignments are current.
C19_BuffersConflictFree ==
    /\ (with_pthreads /\ pc \in {"lock_wait", "check_wait", "wait_cond",
                                 "write"}) =>
          /\ \A t, u \in DOMAIN contexts :
                t # u => /\ Assigned(t) \cap Assigned(u) = {}
                         /\ DstIndices(t) \cap DstIndices(u) = {}
          /\ \A t \in DOMAIN contexts :
                /\ contexts[t].area >= 0
                /\ Assigned(t) \subseteq 0..(Area - 1)
                /\ Assigned(t) \subseteq DOMAIN src_buf
                /\ DstIndices(t) \subseteq DOMAIN dst_buf
                /\ \A k \in 0..2 :
                      {k * Area + j : j \in Assigned(t)} \subseteq Plane(k)
          /\ 1 <= Area /\ Area <= BlkArea
          /\ DOMAIN src_buf = 0..(BlkArea - 1)
          /\ DOMAIN dst_buf = 0..(3 * BlkArea - 1)
          /\ \A k, l \in 0..2 : k # l => Plane(k) \cap Plane(l) = {}
          /\ \A k \in 0..2 : Plane(k) \subseteq DOMAIN dst_buf
    /\ \A t \in Threads :
          Z2rgbReady(t) => pc \in {"lock_wait", "check_wait", "wait_cond"}

\* two workers encode the two halves of a block at the same time
C19_Witness ==
    /\ pc = "wait_cond" /\ n_threads = 2 /\ Area = 2
    /\ \A t \in Threads : tpc[t] = "z2rgb" /\ contexts[t].area = 1
    /\ Cardinality(Threads) = 2

\* worker t is in the WAITING state of thread_run: it has completed its
\* last assignment, decrement included, its flag is down, and it is
\* blocked on go_cond or on its way to the test of line 427
WaitingForDispatch(t) ==
    /\ tpc[t] \in {"lock_go", "check_go", "wait_go"}
    /\ contexts[t].go = 0

\* C20: on every path to the releases of lines 347-362, when main frees
\* src_buf, dst_buf and the contexts no worker is inside z2rgb or has a
\* raised flag: every worker is not yet created, waiting for dispatch, or
\* has terminated.
C20_NoWorkerUsesFreedBuffers ==
    /\ [](pc = "end" =>
             \A t \in DOMAIN tpc :
                 \/ tpc[t] = "none"
                 \/ WaitingForDispatch(t)
                 \/ Terminated(t))
    /\ [][(src_buf' = FREED /\ src_buf # FREED)
          \/ (dst_buf' = FREED /\ dst_buf # FREED)
          \/ (contexts' = FREED /\ contexts # FREED) =>
             /\ pc = "end"
             /\ \A t \in DOMAIN tpc : tpc[t] # "z2rgb" /\ contexts[t].go # 1]_vars

\* a write failed after the first block, and main is about to free the
\* buffers while one of two workers is blocked on go_cond and the other
\* holds go_mutex
C20_Witness ==
    /\ pc = "end" /\ err = "CE_Failure" /\ n >= 1 /\ n_threads = 2
    /\ \E t, u \in Threads :
          /\ tpc[t] = "wait_go" /\ t \in go_cond
          /\ tpc[u] = "check_go" /\ go_mutex = WORKER(u)

(***************************************************************************)
(* Claims about calculate_buf_size (SpecBuf).                              *)
(***************************************************************************)
\* C8: for native tile 256x256, any dataset width/height >= 1 and any
\* budget >= 1, the block chosen by calculate_buf_size has
\* block_width * block_height <= budget + 256*256, block_width <= dataset
\* width and block_height <= dataset height.
C8_BufferSizingBound ==
    (pc = "sized" /\ tile_x = TileEdge /\ tile_y = TileEdge) =>
        /\ blk_x_size * blk_y_size <= max_area + TileEdge * TileEdge
        /\ blk_x_size <= ds_x_size
        /\ blk_y_size <= ds_y_size
        /\ blk_x_size >= 1 /\ blk_y_size >= 1

\* a budget smaller than the chosen block: the block exceeds the budget, by
\* less than one tile, in a dataset larger than one tile
C8_Witness ==
    /\ pc = "sized"
    /\ blk_x_size * blk_y_size > max_area
    /\ ds_x_size > TileEdge /\ ds_y_size > TileEdge

(***************************************************************************)
(* Claims about z2rgb (SpecEnc).                                           *)
(***************************************************************************)
EncSample == src_buf[0]
EncBytes == <<dst_buf[0], dst_buf[1], dst_buf[2]>>
\* scaleRange as an integer, and the distance of an integer sample from
\* scaleMin
IntScaleRange == scale_max - scale_min + 1
\* floor(256 * d / R) and floor(65536 * d / R) mod 256 in exact arithmetic
ExactChan0(d, R) == (256 * d) \div R
ExactChan1(d, R) == ((65536 * d) \div R) % 256

\* the case of C9: an integer elevation inside [scaleMin, scaleMax],
\* resolution 1, no nodata, encoded
EncInRangeCase ==
    /\ pc = "encoded"
    /\ has_nodata = 0 /\ resolution = FOne
    /\ EncSample.x >= 0
    /\ Floor(EncSample) >= scale_min /\ Floor(EncSample) <= scale_max

C10_NodataPrecedence ==
    (pc = "encoded" /\ has_nodata # 0) =>
        LET eff == IF EncSample = src_nodata THEN IntToFloat(dst_nodata)
                   ELSE FMul(EncSample, resolution)
            v == Normalized(eff)
        IN /\ EncBytes[1] \in Chan0Outcomes(v)
           /\ EncBytes[2] \in Chan1Outcomes(v)
           /\ EncBytes[3] = 0
           /\ (/\ EncSample = src_nodata
               /\ dst_nodata >= scale_min /\ dst_nodata <= scale_max) =>
                 EncBytes = <<ExactChan0(dst_nodata - scale_min, IntScaleRange),
                              ExactChan1(dst_nodata - scale_min, IntScaleRange),
                              0>>

\* Scenario B: nodata source -32768, nodataDest 0 inside the scale,
\* resolution 2, and the sample is the nodata value
C10_Witness ==
    /\ pc = "encoded" /\ has_nodata = 1
    /\ src_nodata = IntToFloat(-32768) /\ EncSample = src_nodata
    /\ dst_nodata = 0 /\ scale_min < 0 /\ scale_max > 0
    /\ resolution = IntToFloat(2)

====
